---- MODULE Spec2Model ----
(***************************************************************************)
(* State-machine model of wordle_app.py: the guess grid (GuessView), the   *)
(* on-screen keyboard, the message panel with its timers, the statistics   *)
(* dictionary and the .stats.json file, over successive runs of the app.   *)
(***************************************************************************)
EXTENDS Integers, Sequences, FiniteSets

(* ---------------------------------------------------------------------- *)
(* Program constants                                                       *)
(* ---------------------------------------------------------------------- *)
ABSENT == 0
PRESENT == 1
CORRECT == 2
\* Letter.status is None until the cell is scored
NoStatus == -1
\* GuessView has no attribute `current` until its own on_mount has run
NoCursor == -1
COLUMN_SIZE == 5
ROW_SIZE == 6
NumSlots == COLUMN_SIZE * ROW_SIZE

(* ---------------------------------------------------------------------- *)
(* Bounds of the exploration                                               *)
(* ---------------------------------------------------------------------- *)
\* pending 2-second restore timers of copy_result
MaxTimers == 2
\* a run that starts fresh after an earlier record takes input only when that
\* record holds at most this many rows
MaxPriorRows == 1

(* ---------------------------------------------------------------------- *)
(* Characters and words                                                    *)
(* ---------------------------------------------------------------------- *)
UpperCase == <<"A", "C", "L", "M", "O", "W">>
LowerCase == <<"a", "c", "l", "m", "o", "w">>

\* str.upper() / str.lower() on one character
Upper(ch) ==
    IF \E i \in 1..Len(LowerCase) : LowerCase[i] = ch
    THEN UpperCase[CHOOSE i \in 1..Len(LowerCase) : LowerCase[i] = ch]
    ELSE ch

Lower(ch) ==
    IF \E i \in 1..Len(UpperCase) : UpperCase[i] = ch
    THEN LowerCase[CHOOSE i \in 1..Len(UpperCase) : UpperCase[i] = ch]
    ELSE ch

UpperWord(w) == [i \in 1..Len(w) |-> Upper(w[i])]
LowerWord(w) == [i \in 1..Len(w) |-> Lower(w[i])]

\* the letters the keyboard of the model carries (self.buttons keys)
Letters == {"A", "C"}

\* stand-ins for the two word lists read from La.gz and Ta.gz
La == << <<"a", "c", "a", "c", "a">>, <<"c", "c", "a", "a", "c">> >>
Ta == << <<"c", "a", "c", "a", "c">> >>

InList(w, list) == \E i \in 1..Len(list) : list[i] = w

\* the day indices the clock may give: one before the seed date up to one
\* past the end of the solution list
Days == (0 - 1)..Len(La)

\* letters of the scoring specification
ScoreLetters == {"A", "L", "O"}
ScoreWords == [1..COLUMN_SIZE -> ScoreLetters]
ALLOW == <<"A", "L", "L", "O", "W">>
LLAMA == <<"L", "L", "A", "M", "A">>

(* ---------------------------------------------------------------------- *)
(* State                                                                   *)
(* ---------------------------------------------------------------------- *)
VARIABLES
    phase,      \* "off" | "mounted" | "running" | "crashed" | "score" | "scored"
    index,      \* WordleApp.index
    solution,   \* WordleApp.solution
    slots,      \* GuessView.slots: 0..29 -> [name, status]
    current,    \* GuessView.current, NoCursor while the attribute is not set
    buttons,    \* WordleApp.buttons: letter -> status
    result,     \* WordleApp.result: "None" | "True" | "False"
    content,    \* GameMessage.content
    timer,      \* GameMessage.timer is not None
    timers,     \* pending restore callbacks of copy_result (their old_content)
    stats,      \* WordleApp.stats
    file,       \* .stats.json: <<>> when missing, <<data>> otherwise
    finished    \* history: the grid, result and keyboard at the last save

vars == <<phase, index, solution, slots, current, buttons, result, content,
          timer, timers, stats, file, finished>>

session == <<index, solution, slots, current, buttons, result, content,
             timer, timers, stats>>

(* ---------------------------------------------------------------------- *)
(* GuessView                                                               *)
(* ---------------------------------------------------------------------- *)
EmptySlot == [name |-> "", status |-> NoStatus]
EmptySlots == [i \in 0..(NumSlots - 1) |-> EmptySlot]
NoButtons == [l \in Letters |-> NoStatus]

RowStart(cur) == (cur \div COLUMN_SIZE) * COLUMN_SIZE

\* the slot numbers of the row that holds the cursor
current_guess(cur) == [i \in 1..COLUMN_SIZE |-> RowStart(cur) + i - 1]

current_word(sl, cur) == [i \in 1..COLUMN_SIZE |-> sl[current_guess(cur)[i]].name]

\* number of leading slots that hold a letter (itertools.takewhile)
TakeWhileNamed(sl) ==
    CHOOSE n \in 0..NumSlots :
        /\ \A i \in 0..(n - 1) : sl[i].name # ""
        /\ n = NumSlots \/ sl[n].name = ""

\* partition(l, size): chunks of `size`, the last one possibly shorter
partition(n, size) ==
    [k \in 1..((n + size - 1) \div size) |->
        [j \in 1..(IF k * size <= n THEN size ELSE n - (k - 1) * size) |->
            (k - 1) * size + j - 1]]

\* the rows of slot numbers that valid_guesses returns
valid_guesses(sl) == partition(TakeWhileNamed(sl), COLUMN_SIZE)

\* input_letter without its test of button.name
input_letter_AlwaysAdvance(sl, cur, letter) ==
    IF cur % COLUMN_SIZE = COLUMN_SIZE - 1
    THEN [slots |-> sl, current |-> cur]
    ELSE [slots |-> [sl EXCEPT ![cur + 1].name = letter], current |-> cur + 1]

input_letter(sl, cur, letter) ==
    IF sl[cur].name # ""
    THEN IF cur % COLUMN_SIZE = COLUMN_SIZE - 1
         THEN [slots |-> sl, current |-> cur]
         ELSE [slots |-> [sl EXCEPT ![cur + 1].name = letter], current |-> cur + 1]
    ELSE [slots |-> [sl EXCEPT ![cur].name = letter], current |-> cur]

\* backspace_letter without its test of the first column
backspace_letter_NoGuard(sl, cur) ==
    IF sl[cur].name = ""
    THEN IF cur = 0
         THEN [slots |-> sl, current |-> cur]
         ELSE [slots |-> [sl EXCEPT ![cur - 1].name = ""], current |-> cur - 1]
    ELSE [slots |-> [sl EXCEPT ![cur].name = ""], current |-> cur]

backspace_letter(sl, cur) ==
    IF sl[cur].name = ""
    THEN IF cur % COLUMN_SIZE = 0
         THEN [slots |-> sl, current |-> cur]
         ELSE [slots |-> [sl EXCEPT ![cur - 1].name = ""], current |-> cur - 1]
    ELSE [slots |-> [sl EXCEPT ![cur].name = ""], current |-> cur]

\* collections.Counter
Counter(w) ==
    [ch \in {w[i] : i \in 1..Len(w)} |-> Cardinality({i \in 1..Len(w) : w[i] = ch})]

CounterGet(c, ch) == IF ch \in DOMAIN c THEN c[ch] ELSE 0

CounterDec(c, ch) ==
    [x \in DOMAIN c \cup {ch} |-> IF x = ch THEN CounterGet(c, ch) - 1 ELSE c[x]]

RECURSIVE FirstPassNoDecrement(_, _, _, _)
FirstPassNoDecrement(sol, word, i, acc) ==
    IF i > Len(word) THEN acc
    ELSE FirstPassNoDecrement(sol, word, i + 1,
            IF sol[i] = word[i]
            THEN [acc EXCEPT !.status[i] = CORRECT]
            ELSE acc)

\* first loop of check_solution: exact matches
RECURSIVE FirstPass(_, _, _, _)
FirstPass(sol, word, i, acc) ==
    IF i > Len(word) THEN acc
    ELSE FirstPass(sol, word, i + 1,
            IF sol[i] = word[i]
            THEN [counter |-> CounterDec(acc.counter, word[i]),
                  status |-> [acc.status EXCEPT ![i] = CORRECT]]
            ELSE acc)

RECURSIVE SecondPassNoDecrement(_, _, _)
SecondPassNoDecrement(word, i, acc) ==
    IF i > Len(word) THEN acc
    ELSE SecondPassNoDecrement(word, i + 1,
            IF acc.status[i] = CORRECT THEN acc
            ELSE IF CounterGet(acc.counter, word[i]) <= 0
                 THEN [acc EXCEPT !.status[i] = ABSENT]
                 ELSE [acc EXCEPT !.status[i] = PRESENT])

\* second loop of check_solution: present / absent
RECURSIVE SecondPass(_, _, _)
SecondPass(word, i, acc) ==
    IF i > Len(word) THEN acc
    ELSE SecondPass(word, i + 1,
            IF acc.status[i] = CORRECT THEN acc
            ELSE IF CounterGet(acc.counter, word[i]) <= 0
                 THEN [acc EXCEPT !.status[i] = ABSENT]
                 ELSE [counter |-> CounterDec(acc.counter, word[i]),
                       status |-> [acc.status EXCEPT ![i] = PRESENT]])

SetRowStatus(sl, cur, st) ==
    [i \in DOMAIN sl |->
        IF RowStart(cur) <= i /\ i < RowStart(cur) + COLUMN_SIZE
        THEN [sl[i] EXCEPT !.status = st[i - RowStart(cur) + 1]]
        ELSE sl[i]]

\* one loop that decides Present before all exact matches are known
RECURSIVE SinglePass(_, _, _, _)
SinglePass(sol, word, i, acc) ==
    IF i > Len(word) THEN acc
    ELSE SinglePass(sol, word, i + 1,
            IF sol[i] = word[i]
            THEN [counter |-> CounterDec(acc.counter, word[i]),
                  status |-> [acc.status EXCEPT ![i] = CORRECT]]
            ELSE IF CounterGet(acc.counter, word[i]) <= 0
                 THEN [acc EXCEPT !.status[i] = ABSENT]
                 ELSE [counter |-> CounterDec(acc.counter, word[i]),
                       status |-> [acc.status EXCEPT ![i] = PRESENT]])

\* check_solution with that one loop
check_solution_SinglePass(sl, cur, sol) ==
    LET word == current_word(sl, cur)
        st0 == [i \in 1..COLUMN_SIZE |-> sl[current_guess(cur)[i]].status]
    IN  IF sol = word
        THEN [slots |-> SetRowStatus(sl, cur, [i \in 1..COLUMN_SIZE |-> CORRECT]),
              current |-> cur, ret |-> "True"]
        ELSE LET acc == SinglePass(sol, word, 1, [counter |-> Counter(sol), status |-> st0])
                 sl2 == SetRowStatus(sl, cur, acc.status)
             IN  IF cur < COLUMN_SIZE * ROW_SIZE - 1
                 THEN [slots |-> sl2, current |-> cur + 1, ret |-> "None"]
                 ELSE [slots |-> sl2, current |-> cur, ret |-> "False"]

\* check_solution that leaves the cursor on the scored row
check_solution_NoAdvance(sl, cur, sol) ==
    LET word == current_word(sl, cur)
        st0 == [i \in 1..COLUMN_SIZE |-> sl[current_guess(cur)[i]].status]
    IN  IF sol = word
        THEN [slots |-> SetRowStatus(sl, cur, [i \in 1..COLUMN_SIZE |-> CORRECT]),
              current |-> cur, ret |-> "True"]
        ELSE LET acc == SecondPass(word, 1,
                            FirstPass(sol, word, 1,
                                      [counter |-> Counter(sol), status |-> st0]))
                 sl2 == SetRowStatus(sl, cur, acc.status)
             IN  IF cur < COLUMN_SIZE * ROW_SIZE - 1
                 THEN [slots |-> sl2, current |-> cur, ret |-> "None"]
                 ELSE [slots |-> sl2, current |-> cur, ret |-> "False"]

\* check_solution without its early return for a full match
check_solution_NoEarlyReturn(sl, cur, sol) ==
    LET word == current_word(sl, cur)
        st0 == [i \in 1..COLUMN_SIZE |-> sl[current_guess(cur)[i]].status]
        acc == SecondPass(word, 1,
                   FirstPass(sol, word, 1, [counter |-> Counter(sol), status |-> st0]))
        sl2 == SetRowStatus(sl, cur, acc.status)
    IN  IF cur < COLUMN_SIZE * ROW_SIZE - 1
        THEN [slots |-> sl2, current |-> cur + 1, ret |-> "None"]
        ELSE [slots |-> sl2, current |-> cur, ret |-> "False"]

check_solution(sl, cur, sol) ==
    LET word == current_word(sl, cur)
        st0 == [i \in 1..COLUMN_SIZE |-> sl[current_guess(cur)[i]].status]
    IN  IF sol = word
        THEN [slots |-> SetRowStatus(sl, cur, [i \in 1..COLUMN_SIZE |-> CORRECT]),
              current |-> cur, ret |-> "True"]
        ELSE LET acc == SecondPass(word, 1,
                            FirstPass(sol, word, 1,
                                      [counter |-> Counter(sol), status |-> st0]))
                 sl2 == SetRowStatus(sl, cur, acc.status)
             IN  IF cur < COLUMN_SIZE * ROW_SIZE - 1
                 THEN [slots |-> sl2, current |-> cur + 1, ret |-> "None"]
                 ELSE [slots |-> sl2, current |-> cur, ret |-> "False"]

(* ---------------------------------------------------------------------- *)
(* WordleApp: messages, keyboard, statistics                               *)
(* ---------------------------------------------------------------------- *)
NoMessage == <<>>
NotEnoughLetters == <<"Not enough letters">>
NotInWordList == <<"Not in word list">>
CopiedMessage == <<"Successfully copied to the clipboard.">>

\* the content show_result sets
ResultMessage(res, sol) ==
    (IF res = "True"
     THEN <<"You Win!">>
     ELSE <<"You Lose! The answer is:">> \o sol)
    \o <<"Press 'c' to copy the result.">>

Max(a, b) == IF a >= b THEN a ELSE b

\* `button.status or 0`
OrZero(s) == IF s = NoStatus THEN 0 ELSE s

\* the loop with an assignment where the code takes the maximum
RECURSIVE UpdateButtonsNoMax(_, _, _, _)
UpdateButtonsNoMax(b, sl, cells, i) ==
    IF i > Len(cells) THEN b
    ELSE UpdateButtonsNoMax(
            [b EXCEPT ![sl[cells[i]].name] = sl[cells[i]].status],
            sl, cells, i + 1)

\* the loop of check_input over the submitted row: button.status = max(..)
RECURSIVE UpdateButtons(_, _, _, _)
UpdateButtons(b, sl, cells, i) ==
    IF i > Len(cells) THEN b
    ELSE UpdateButtons(
            [b EXCEPT ![sl[cells[i]].name] = Max(OrZero(@), sl[cells[i]].status)],
            sl, cells, i + 1)

\* str(l.status)
StrStatus(s) ==
    IF s = ABSENT THEN <<"0">>
    ELSE IF s = PRESENT THEN <<"1">>
    ELSE IF s = CORRECT THEN <<"2">>
    ELSE <<"N", "o", "n", "e">>

IsDigit(ch) == ch \in {"0", "1", "2"}

\* the status read as a truth value
IntStatusTruthy(ch) == IF ch = "0" THEN 0 ELSE 1

\* int(status)
IntStatus(ch) ==
    IF ch = "0" THEN 0 ELSE IF ch = "1" THEN 1 ELSE 2

RECURSIVE Flatten(_)
Flatten(ss) == IF ss = <<>> THEN <<>> ELSE Head(ss) \o Flatten(Tail(ss))

\* "".join(str(l.name) for row in guesses for l in row)
JoinNames(sl, guesses) ==
    Flatten([k \in 1..Len(guesses) |->
                [j \in 1..Len(guesses[k]) |-> sl[guesses[k][j]].name]])

\* "".join(str(l.status) for row in guesses for l in row)
JoinStatuses(sl, guesses) ==
    Flatten([k \in 1..Len(guesses) |->
                Flatten([j \in 1..Len(guesses[k]) |-> StrStatus(sl[guesses[k][j]].status)])])

INITIAL_STATS == [played |-> 0, stats |-> <<0, 0, 0, 0, 0, 0>>]

DictGet(d, k, default) == IF k \in DOMAIN d THEN d[k] ELSE default

DictSet(d, k, v) == [x \in DOMAIN d \cup {k} |-> IF x = k THEN v ELSE d[x]]

\* dict.update
DictUpdate(d, e) == [x \in DOMAIN d \cup DOMAIN e |-> IF x \in DOMAIN e THEN e[x] ELSE d[x]]

\* the entry counted from 1 where the list counts from 0
IncrementStatOffByOne(st, n) ==
    [st EXCEPT !.stats[IF n < Len(st.stats) THEN n + 1 ELSE 1] = @ + 1]

\* self.stats["stats"][n - 1] += 1  (a negative Python index counts from the end)
IncrementStat(st, n) ==
    LET at == IF n >= 1 THEN n ELSE Len(st.stats) + n
    IN  [st EXCEPT !.stats[at] = @ + 1]

\* save_statistics up to the building of `data`: the statistics after the two
\* in-place updates, and the dictionary that is written
SavedData(st, sl, res, idx) ==
    LET guesses == valid_guesses(sl)
        st1 == [st EXCEPT !.played = @ + 1]
        st2 == IF res = "True" THEN IncrementStat(st1, Len(guesses)) ELSE st1
    IN  [last_played |-> idx,
         last_guesses |-> <<JoinNames(sl, guesses), JoinStatuses(sl, guesses)>>,
         last_result |-> res,
         played |-> st2.played + 1,
         stats |-> st2.stats]

(* ---------------------------------------------------------------------- *)
(* Start of a run: WordleApp.on_mount with init_game, then the grid's own  *)
(* handler GuessView.on_mount                                              *)
(* ---------------------------------------------------------------------- *)
Min(a, b) == IF a <= b THEN a ELSE b

\* La[index] with Python's indexing: a negative index counts from the end
IndexInRange(d) == (0 - Len(La)) <= d /\ d < Len(La)
SolutionFor(d) == UpperWord(La[IF d >= 0 THEN d + 1 ELSE Len(La) + d + 1])

\* the pairs zip(*last_guesses) yields
ZipLen(lg) == Min(Len(lg[1]), Len(lg[2]))

\* the loop with an assignment where the code takes the maximum
RECURSIVE ReplayButtonsNoMax(_, _, _, _)
ReplayButtonsNoMax(b, lg, i, n) ==
    IF i > n THEN b
    ELSE ReplayButtonsNoMax([b EXCEPT ![lg[1][i]] = IntStatus(lg[2][i])], lg, i + 1, n)

\* the loop of init_game over the keyboard buttons
RECURSIVE ReplayButtons(_, _, _, _)
ReplayButtons(b, lg, i, n) ==
    IF i > n THEN b
    ELSE ReplayButtons([b EXCEPT ![lg[1][i]] = Max(OrZero(@), IntStatus(lg[2][i]))],
                       lg, i + 1, n)

\* the loop of init_game over the slots
ReplaySlots(lg) ==
    [i \in 0..(NumSlots - 1) |->
        IF i < ZipLen(lg)
        THEN [name |-> lg[1][i + 1], status |-> IntStatus(lg[2][i + 1])]
        ELSE EmptySlot]

\* init_game raises: no stored guesses, or a status that is no number
ReplayFails(st) ==
    \/ "last_guesses" \notin DOMAIN st
    \/ \E i \in 1..ZipLen(st.last_guesses) : ~IsDigit(st.last_guesses[2][i])

BlankSession ==
    /\ index' = 0
    /\ solution' = <<>>
    /\ slots' = EmptySlots
    /\ current' = NoCursor
    /\ buttons' = NoButtons
    /\ result' = "None"
    /\ content' = NoMessage
    /\ timer' = FALSE
    /\ timers' = <<>>
    /\ stats' = INITIAL_STATS

Crash(d) ==
    /\ phase' = "crashed"
    /\ BlankSession

\* a fresh game that starts from INITIAL_STATS instead of the loaded record
FreshGameResetStats(d, st) ==
    /\ phase' = "mounted"
    /\ index' = d
    /\ solution' = SolutionFor(d)
    /\ stats' = DictSet(INITIAL_STATS, "last_result", "None")
    /\ slots' = EmptySlots
    /\ current' = NoCursor
    /\ buttons' = NoButtons
    /\ result' = "None"
    /\ content' = NoMessage
    /\ timer' = FALSE
    /\ timers' = <<>>

\* init_game when index > last_played
FreshGame(d, st) ==
    /\ phase' = "mounted"
    /\ index' = d
    /\ solution' = SolutionFor(d)
    /\ stats' = DictSet(st, "last_result", "None")
    /\ slots' = EmptySlots
    /\ current' = NoCursor
    /\ buttons' = NoButtons
    /\ result' = "None"
    /\ content' = NoMessage
    /\ timer' = FALSE
    /\ timers' = <<>>

\* init_game otherwise: the stored guesses are put back
ReplayGame(d, st) ==
    /\ phase' = "mounted"
    /\ index' = d
    /\ solution' = SolutionFor(d)
    /\ stats' = st
    /\ slots' = ReplaySlots(st.last_guesses)
    /\ current' = NoCursor
    /\ buttons' = ReplayButtons(NoButtons, st.last_guesses, 1, ZipLen(st.last_guesses))
    /\ result' = st.last_result
    /\ content' = ResultMessage(st.last_result, SolutionFor(d))
    /\ timer' = TRUE
    /\ timers' = <<>>

\* the test with >= for >
IsFreshOrEqual(d, st) == d >= DictGet(st, "last_played", 0 - 1)

\* init_game's test
IsFresh(d, st) == d > DictGet(st, "last_played", 0 - 1)

LoadStats == IF file = <<>> THEN INITIAL_STATS ELSE file[1]

\* WordleApp.on_mount.  The app handles no other event while this handler
\* is suspended at one of its awaits, and the grid is docked only after
\* init_game, so the state it leaves is the first one another handler sees.
Mount(d) ==
    /\ phase = "off"
    /\ IF ~IndexInRange(d) THEN Crash(d)
       ELSE IF IsFresh(d, LoadStats) THEN FreshGame(d, LoadStats)
       ELSE IF ReplayFails(LoadStats) THEN Crash(d)
       ELSE ReplayGame(d, LoadStats)
    /\ UNCHANGED <<file, finished>>

\* GuessView.on_mount: the grid's own handler, run from the grid's message
\* queue after the app has docked it; it alone gives the grid its cursor
GuessViewOnMount ==
    /\ phase = "mounted"
    /\ phase' = "running"
    /\ current' = 0
    /\ UNCHANGED <<index, solution, slots, buttons, result, content, timer, timers,
                   stats, file, finished>>

\* the process ends
Quit ==
    /\ phase \in {"mounted", "running", "crashed"}
    /\ phase' = "off"
    /\ BlankSession
    /\ UNCHANGED <<file, finished>>

(* ---------------------------------------------------------------------- *)
(* Event handlers                                                          *)
(* ---------------------------------------------------------------------- *)
IsAsciiLetter(key) ==
    \E i \in 1..Len(UpperCase) : key = UpperCase[i] \/ key = LowerCase[i]

Keys == Letters \cup {Lower(l) : l \in Letters} \cup {"enter", "ctrl+h", "escape"}
ButtonNames == Letters \cup {"enter", "backspace"}

PriorRows(st) ==
    IF "last_guesses" \in DOMAIN st THEN Len(st.last_guesses[1]) \div COLUMN_SIZE ELSE 0

InputAllowed == PriorRows(stats) <= MaxPriorRows

\* the test on the solution list alone
RejectedWordLaOnly(w) == ~InList(w, La)

\* the test of check_input on the word lists
RejectedWord(w) == ~InList(w, Ta) /\ ~InList(w, La)

\* self.guess.input_letter(..) after the message is cleared
InputStep(letter) ==
    LET r == input_letter(slots, current, letter)
    IN  /\ slots' = r.slots
        /\ current' = r.current
        /\ content' = NoMessage
        /\ UNCHANGED <<buttons, result, timer, timers, stats, file, finished>>

\* self.guess.backspace_letter() after the message is cleared
BackspaceStep ==
    LET r == backspace_letter(slots, current)
    IN  /\ slots' = r.slots
        /\ current' = r.current
        /\ content' = NoMessage
        /\ UNCHANGED <<buttons, result, timer, timers, stats, file, finished>>

\* show_result and save_statistics, with the grid, keyboard and result given
Complete(sl, b, res) ==
    LET data == SavedData(stats, sl, res, index)
    IN  /\ content' = ResultMessage(res, solution)
        /\ timer' = TRUE
        /\ stats' = DictUpdate(stats, data)
        /\ file' = <<data>>
        /\ finished' = [slots |-> sl, buttons |-> b, result |-> res, index |-> index]

\* check_input
CheckInput ==
    LET word == current_word(slots, current)
    IN  IF \E i \in 1..COLUMN_SIZE : word[i] = ""
        THEN /\ content' = NotEnoughLetters
             /\ UNCHANGED <<slots, current, buttons, result, timer, timers, stats,
                            file, finished>>
        ELSE IF RejectedWord(LowerWord(word))
        THEN /\ content' = NotInWordList
             /\ UNCHANGED <<slots, current, buttons, result, timer, timers, stats,
                            file, finished>>
        ELSE LET r == check_solution(slots, current, solution)
                 b == UpdateButtons(buttons, r.slots, current_guess(current), 1)
             IN  /\ slots' = r.slots
                 /\ current' = r.current
                 /\ result' = r.ret
                 /\ buttons' = b
                 /\ timers' = timers
                 /\ IF r.ret # "None"
                    THEN Complete(r.slots, b, r.ret)
                    ELSE /\ content' = NoMessage
                         /\ UNCHANGED <<timer, stats, file, finished>>

\* copy_result that also stops the countdown
CopyResultStopsEta ==
    /\ Len(timers) < MaxTimers
    /\ content' = CopiedMessage
    /\ timers' = Append(timers, content)
    /\ timer' = FALSE
    /\ UNCHANGED <<slots, current, buttons, result, stats, file, finished>>

\* copy_result
CopyResult ==
    /\ Len(timers) < MaxTimers
    /\ content' = CopiedMessage
    /\ timers' = Append(timers, content)
    /\ UNCHANGED <<slots, current, buttons, result, timer, stats, file, finished>>

\* input_letter, backspace_letter and check_input read self.guess.current;
\* before GuessView.on_mount that is an AttributeError, which ends the run
NoCursorError ==
    /\ Crash(index)
    /\ UNCHANGED <<file, finished>>

OnKey(key) ==
    /\ phase \in {"mounted", "running"}
    /\ IF result # "None"
       THEN /\ UNCHANGED <<phase, index, solution>>
            /\ IF key = "c"
               THEN CopyResult
               ELSE UNCHANGED <<slots, current, buttons, result, content, timer,
                                timers, stats, file, finished>>
       ELSE IF current = NoCursor /\ (IsAsciiLetter(key) \/ key \in {"enter", "ctrl+h"})
       THEN NoCursorError
       ELSE /\ UNCHANGED <<phase, index, solution>>
            /\ InputAllowed
            /\ IF IsAsciiLetter(key) THEN InputStep(Upper(key))
               ELSE IF key = "enter" THEN CheckInput
               ELSE IF key = "ctrl+h" THEN BackspaceStep
               ELSE /\ content' = NoMessage
                    /\ UNCHANGED <<slots, current, buttons, result, timer, timers,
                                   stats, file, finished>>

\* the button handler without its test of self.result
HandleButtonPressedUnguarded(name) ==
    /\ phase \in {"mounted", "running"}
    /\ IF current = NoCursor
       THEN NoCursorError
       ELSE /\ UNCHANGED <<phase, index, solution>>
            /\ InputAllowed
            /\ IF name = "enter" THEN CheckInput
               ELSE IF name = "backspace" THEN BackspaceStep
               ELSE InputStep(name)

HandleButtonPressed(name) ==
    /\ phase \in {"mounted", "running"}
    /\ IF result # "None"
       THEN UNCHANGED <<phase, index, solution, slots, current, buttons, result,
                        content, timer, timers, stats, file, finished>>
       ELSE IF current = NoCursor
       THEN NoCursorError
       ELSE /\ UNCHANGED <<phase, index, solution>>
            /\ InputAllowed
            /\ IF name = "enter" THEN CheckInput
               ELSE IF name = "backspace" THEN BackspaceStep
               ELSE InputStep(name)

\* a restore callback of copy_result runs; equal delays expire in creation order
RestoreTimer ==
    /\ phase \in {"mounted", "running"}
    /\ timers # <<>>
    /\ content' = Head(timers)
    /\ timers' = Tail(timers)
    /\ UNCHANGED <<phase, index, solution, slots, current, buttons, result, timer,
                   stats, file, finished>>

\* GameMessage.render once the target date has passed: clear_eta
ClearEta ==
    /\ phase \in {"mounted", "running"}
    /\ timer
    /\ timer' = FALSE
    /\ UNCHANGED <<phase, index, solution, slots, current, buttons, result, content,
                   timers, stats, file, finished>>

(* ---------------------------------------------------------------------- *)
(* The application over successive runs                                    *)
(* ---------------------------------------------------------------------- *)
Init ==
    /\ phase = "off"
    /\ index = 0
    /\ solution = <<>>
    /\ slots = EmptySlots
    /\ current = NoCursor
    /\ buttons = NoButtons
    /\ result = "None"
    /\ content = NoMessage
    /\ timer = FALSE
    /\ timers = <<>>
    /\ stats = INITIAL_STATS
    /\ file = <<>>
    /\ finished = [slots |-> EmptySlots, buttons |-> NoButtons, result |-> "None",
                   index |-> 0]

Next ==
    \/ \E d \in Days : Mount(d)
    \/ GuessViewOnMount
    \/ Quit
    \/ \E key \in Keys : OnKey(key)
    \/ \E name \in ButtonNames : HandleButtonPressed(name)
    \/ RestoreTimer
    \/ ClearEta

Spec == Init /\ [][Next]_vars

(* ---------------------------------------------------------------------- *)
(* check_solution on its own: every solution and guess of the scoring      *)
(* alphabet, and the pair ALLOW / LLAMA                                    *)
(* ---------------------------------------------------------------------- *)
ScorePairs == (ScoreWords \X ScoreWords) \cup {<<ALLOW, LLAMA>>}

\* the first row holds the guess, the cursor is on its last letter
RowTyped(g) ==
    [i \in 0..(NumSlots - 1) |->
        IF i < COLUMN_SIZE THEN [name |-> g[i + 1], status |-> NoStatus] ELSE EmptySlot]

ScoreInit ==
    \E p \in ScorePairs :
        /\ phase = "score"
        /\ index = 0
        /\ solution = p[1]
        /\ slots = RowTyped(p[2])
        /\ current = COLUMN_SIZE - 1
        /\ buttons = NoButtons
        /\ result = "None"
        /\ content = NoMessage
        /\ timer = FALSE
        /\ timers = <<>>
        /\ stats = INITIAL_STATS
        /\ file = <<>>
        /\ finished = [slots |-> EmptySlots, buttons |-> NoButtons, result |-> "None",
                       index |-> 0]

\* self.guess.check_solution(self.solution)
ScoreStep ==
    /\ phase = "score"
    /\ LET r == check_solution(slots, current, solution)
       IN  /\ slots' = r.slots
           /\ current' = r.current
           /\ result' = r.ret
    /\ phase' = "scored"
    /\ UNCHANGED <<index, solution, buttons, content, timer, timers, stats, file,
                   finished>>

ScoreNext == ScoreStep

SpecScore == ScoreInit /\ [][ScoreNext]_vars

(* ---------------------------------------------------------------------- *)
(* Properties of the scoring                                               *)
(* ---------------------------------------------------------------------- *)
\* the statuses of the first row
RowStatuses(sl, row) == [i \in 1..COLUMN_SIZE |-> sl[(row - 1) * COLUMN_SIZE + i - 1].status]
RowNames(sl, row) == [i \in 1..COLUMN_SIZE |-> sl[(row - 1) * COLUMN_SIZE + i - 1].name]

Occurrences(w, ch) == Cardinality({i \in 1..Len(w) : w[i] = ch})

Credited(sl, row, ch) ==
    Cardinality({i \in 1..COLUMN_SIZE :
                    /\ RowNames(sl, row)[i] = ch
                    /\ RowStatuses(sl, row)[i] \in {PRESENT, CORRECT}})

\* C1: after check_solution scored a guess (the early return for guess =
\* solution included), no letter has more Correct or Present cells in the
\* guess than it has occurrences in the solution.
C1_NoOverCredit ==
    phase = "scored" =>
        /\ \A i \in 1..COLUMN_SIZE : RowStatuses(slots, 1)[i] \in {ABSENT, PRESENT, CORRECT}
        /\ \A i \in 1..COLUMN_SIZE :
               Credited(slots, 1, RowNames(slots, 1)[i])
                   <= Occurrences(solution, RowNames(slots, 1)[i])

\* a guess with a repeated letter of which the solution holds fewer, one of
\* them in the right place, has been scored
C1_Witness ==
    /\ phase = "scored"
    /\ solution = <<"L", "A", "A", "A", "O">>
    /\ RowNames(slots, 1) = <<"L", "L", "O", "O", "A">>
    /\ RowStatuses(slots, 1) = <<CORRECT, ABSENT, PRESENT, ABSENT, PRESENT>>

C1_WitnessEqual ==
    /\ phase = "scored"
    /\ RowNames(slots, 1) = solution
    /\ result = "True"

\* C2 as stated: LLAMA against ALLOW scores Present, Absent, Absent, Absent,
\* Absent.
C2_AsStated ==
    (phase = "scored" /\ solution = ALLOW /\ RowNames(slots, 1) = LLAMA) =>
        RowStatuses(slots, 1) = <<PRESENT, ABSENT, ABSENT, ABSENT, ABSENT>>

\* C2 amended: LLAMA against ALLOW scores Present, Correct, Present, Absent,
\* Absent: the second L is in place, the first L takes the other L of the
\* solution, the first A takes its only A and the last A is left without.
C2_LlamaAllow ==
    (phase = "scored" /\ solution = ALLOW /\ RowNames(slots, 1) = LLAMA) =>
        RowStatuses(slots, 1) = <<PRESENT, CORRECT, PRESENT, ABSENT, ABSENT>>

C2_Witness ==
    /\ phase = "scored"
    /\ solution = ALLOW
    /\ RowNames(slots, 1) = LLAMA
    /\ current = COLUMN_SIZE

(* ---------------------------------------------------------------------- *)
(* Properties of a game                                                    *)
(* ---------------------------------------------------------------------- *)
\* a step inside one run of the app, the grid mounted
InSession == phase = "running" /\ phase' = "running"

\* the app is up: WordleApp.on_mount has run, GuessView.on_mount maybe not yet
Started == phase \in {"mounted", "running"}

\* a step inside one run of the app, the grid mounted or not, that is not
\* the mounting of the grid
InRun == Started /\ phase' = phase

\* enter is pressed, on the keyboard or on the screen
EnterStep == OnKey("enter") \/ HandleButtonPressed("enter")

RowFull(sl, cur) == \A i \in 1..COLUMN_SIZE : current_word(sl, cur)[i] # ""

InWordLists(sl, cur) ==
    \/ InList(LowerWord(current_word(sl, cur)), La)
    \/ InList(LowerWord(current_word(sl, cur)), Ta)

\* rows that carry a score
ScoredRows(sl) ==
    Cardinality({r \in 1..ROW_SIZE : sl[(r - 1) * COLUMN_SIZE].status # NoStatus})

\* C3: a submitted row equal to the solution gets five Correct cells and the
\* result Won, on any of the six rows, and the result becomes Won only by
\* such a submission.
C3_WinOnMatch ==
    [][(InSession /\ result = "None") =>
        /\ (EnterStep /\ current_word(slots, current) = solution) =>
              /\ result' = "True"
              /\ RowStatuses(slots', (current \div COLUMN_SIZE) + 1)
                     = [i \in 1..COLUMN_SIZE |-> CORRECT]
              /\ current_word(slots', current) = solution
        /\ result' = "True" =>
              /\ EnterStep
              /\ current_word(slots, current) = solution
              /\ current' = current]_vars

\* the game was won in this run on the sixth row
C3_Witness ==
    /\ phase = "running"
    /\ result = "True"
    /\ current = NumSlots - 1
    /\ RowStatuses(slots, ROW_SIZE) = [i \in 1..COLUMN_SIZE |-> CORRECT]

\* C4: the result becomes Lost exactly when the sixth row is accepted without
\* matching the solution; once Won or Lost, no later step of the run changes
\* the result, a grid cell, the cursor or the keyboard (in a replayed game
\* this holds before the grid is mounted too: no key or click raises there).
C4_LostAndAbsorbing ==
    [][/\ (InSession /\ result = "None") =>
              (result' = "False" <=>
                  /\ EnterStep
                  /\ RowFull(slots, current)
                  /\ InWordLists(slots, current)
                  /\ current \div COLUMN_SIZE = ROW_SIZE - 1
                  /\ current_word(slots, current) # solution)
       /\ (InRun /\ result # "None") =>
              UNCHANGED <<result, slots, current, buttons>>
       /\ (Started /\ result # "None") => phase' # "crashed"]_vars

\* the game was lost in this run and the result was copied afterwards
C4_Witness ==
    /\ phase = "running"
    /\ result = "False"
    /\ current = NumSlots - 1
    /\ content = CopiedMessage

\* C5 as stated: a run adds exactly 1 to `played`, in memory and in the file,
\* when the puzzle ends in it, and nothing otherwise; the file is written at
\* most once, at that step.
C5_PlayedOnce ==
    [][InSession =>
        /\ stats'.played =
              stats.played + (IF result = "None" /\ result' # "None" THEN 1 ELSE 0)
        /\ file' # file =>
              /\ result = "None" /\ result' # "None"
              /\ file'[1].played = stats.played + 1]_vars

\* C6: a win by the k-th accepted submission adds 1 to stats[k-1] and leaves
\* the other five entries alone; a loss leaves all six alone.
C6_StatsEntry ==
    [][(InSession /\ result = "None" /\ result' # "None") =>
        /\ stats'.stats =
              IF result' = "True"
              THEN [stats.stats EXCEPT ![ScoredRows(slots')] = @ + 1]
              ELSE stats.stats
        /\ file'[1].stats = stats'.stats]_vars

\* a first-row win of an earlier day, then a win by the third submission
C6_Witness ==
    /\ phase = "running"
    /\ result = "True"
    /\ current = 3 * COLUMN_SIZE - 1
    /\ stats.stats = <<1, 0, 1, 0, 0, 0>>

C6_WitnessLost ==
    /\ phase = "running"
    /\ result = "False"
    /\ current = NumSlots - 1
    /\ stats.stats = <<1, 0, 0, 0, 0, 0>>

(* ---------------------------------------------------------------------- *)
(* Properties of the stored record across runs                             *)
(* ---------------------------------------------------------------------- *)
\* the run shows the day the file was written for
SameDayAsFile == Started /\ file # <<>> /\ index = file[1].last_played

\* C7: a run on the day of the stored record shows the grid, result and
\* keyboard the completing run ended with; cells beyond the stored guesses
\* are empty and unscored; the two stored strings have the same length, a
\* multiple of 5, and the statuses are digits 0..2.
C7_RoundTrip ==
    SameDayAsFile =>
        LET lg == file[1].last_guesses
        IN  /\ slots = finished.slots
            /\ result = finished.result
            /\ result \in {"True", "False"}
            /\ buttons = finished.buttons
            /\ \A i \in 0..(NumSlots - 1) : i >= Len(lg[1]) => slots[i] = EmptySlot
            /\ Len(lg[1]) = Len(lg[2])
            /\ Len(lg[1]) % COLUMN_SIZE = 0
            /\ \A i \in 1..Len(lg[2]) : lg[2][i] \in {"0", "1", "2"}

\* a later run replays a game that was won by the second submission, with
\* all three statuses in its first row
C7_Witness ==
    /\ SameDayAsFile
    /\ current = 0
    /\ result = "True"
    /\ Len(file[1].last_guesses[1]) = 2 * COLUMN_SIZE
    /\ RowStatuses(slots, 1) = <<PRESENT, CORRECT, CORRECT, PRESENT, ABSENT>>
    /\ buttons = [l \in Letters |-> CORRECT]

C7_WitnessLost ==
    /\ SameDayAsFile
    /\ current = 0
    /\ result = "False"
    /\ slots[NumSlots - 1].status # NoStatus

\* C8: a run started on the day of the stored record starts with the stored
\* result, Won or Lost, and with the stored statistics; no key, click or
\* timer of that run, before or after the grid is mounted, changes a cell,
\* the cursor, the keyboard, the result, the statistics or the file or ends
\* the run with an error, and the mounting of the grid only sets the cursor.
C8_NoSecondGame ==
    [][/\ (phase = "off" /\ phase' = "mounted" /\ file # <<>>
              /\ index' = file[1].last_played) =>
              /\ result' = file[1].last_result
              /\ result' \in {"True", "False"}
              /\ stats' = file[1]
       /\ (InRun /\ SameDayAsFile) =>
              UNCHANGED <<slots, current, buttons, result, stats, file>>
       /\ SameDayAsFile =>
              /\ phase' # "crashed"
              /\ UNCHANGED <<slots, buttons, result, stats, file>>
                     \/ phase' = "off"]_vars

\* a replayed run in which the copy key was used
C8_Witness ==
    /\ SameDayAsFile
    /\ current = 0
    /\ result = "True"
    /\ timers # <<>>

\* C9: a run started on a later day than the stored record starts with an
\* empty grid, no keyboard state and no result, and with the played count
\* and the stats array of the record; the mounting of the grid puts the
\* cursor at 0 and changes nothing else, and no letter, backspace or submit
\* is taken before it.
C9_FreshStart ==
    [][/\ (phase = "off" /\ phase' = "mounted" /\ file # <<>>
              /\ file[1].last_played < index') =>
              /\ slots' = EmptySlots
              /\ buttons' = NoButtons
              /\ result' = "None"
              /\ stats'.played = file[1].played
              /\ stats'.stats = file[1].stats
              /\ file' = file
       /\ phase = "mounted" =>
              UNCHANGED <<slots, buttons, result, stats, file>> \/ phase' \notin {"mounted", "running"}
       /\ (phase = "mounted" /\ phase' = "running") =>
              /\ current' = 0
              /\ UNCHANGED <<slots, buttons, result, stats, file>>]_vars

\* a fresh run that carries the statistics of an earlier day, its grid
\* mounted
C9_Witness ==
    /\ phase = "running"
    /\ current = 0
    /\ file # <<>>
    /\ file[1].last_played < index
    /\ slots = EmptySlots
    /\ result = "None"
    /\ stats.stats = <<0, 0, 1, 0, 0, 0>>

\* C10: enter on a row with an empty cell, or on a full row whose word is in
\* neither list, only sets the message; a full row is scored exactly when
\* its lowercased word is in one of the two lists.
C10_RejectedSubmit ==
    [][(InSession /\ result = "None" /\ EnterStep) =>
        /\ ~RowFull(slots, current) =>
              /\ content' = NotEnoughLetters
              /\ UNCHANGED <<slots, current, buttons, result, stats, file, timer, timers>>
        /\ (RowFull(slots, current) /\ ~InWordLists(slots, current)) =>
              /\ content' = NotInWordList
              /\ UNCHANGED <<slots, current, buttons, result, stats, file, timer, timers>>
        /\ RowFull(slots, current) =>
              (slots'[RowStart(current)].status # NoStatus <=> InWordLists(slots, current))]_vars

\* a full second row was rejected
C10_Witness ==
    /\ phase = "running"
    /\ content = NotInWordList
    /\ current = 2 * COLUMN_SIZE - 1
    /\ slots[COLUMN_SIZE].status = NoStatus

C10_WitnessIncomplete ==
    /\ phase = "running"
    /\ content = NotEnoughLetters
    /\ current = COLUMN_SIZE + 2
    /\ slots[COLUMN_SIZE + 2].name = ""

(* ---------------------------------------------------------------------- *)
(* Properties of the keyboard and the cursor                               *)
(* ---------------------------------------------------------------------- *)
\* the submitted row was scored in this step
RowScored ==
    /\ InSession
    /\ slots[RowStart(current)].status = NoStatus
    /\ slots'[RowStart(current)].status # NoStatus

\* the highest status the cells of one row give a letter, NoStatus if none
RowMax(sl, row, l) ==
    LET got == {RowStatuses(sl, row)[i] : i \in {j \in 1..COLUMN_SIZE : RowNames(sl, row)[j] = l}}
    IN  IF got = {} THEN NoStatus ELSE CHOOSE s \in got : \A t \in got : t <= s

\* C11: in the order unset < Absent < Present < Correct no step of a run
\* lowers the keyboard state of a letter; a scored row leaves each letter at
\* the maximum of its former state and the statuses its cells got in the
\* row; a replay leaves no letter below a status stored for it.
C11_KeyboardMonotone ==
    [][/\ (Started /\ phase' \in {"mounted", "running"}) =>
             \A l \in Letters : buttons'[l] >= buttons[l]
       /\ RowScored =>
             \A l \in Letters :
                 buttons'[l] = Max(buttons[l], RowMax(slots', (current \div COLUMN_SIZE) + 1, l))
       /\ (phase = "off" /\ phase' = "mounted") =>
             \A i \in 0..(NumSlots - 1) :
                 slots'[i].name # "" => buttons'[slots'[i].name] >= slots'[i].status]_vars

\* a letter that is Correct on the keyboard got Absent in the last cell of
\* the second scored row
C11_Witness ==
    /\ phase = "running"
    /\ current = 2 * COLUMN_SIZE
    /\ slots[2 * COLUMN_SIZE - 1].status = ABSENT
    /\ buttons[slots[2 * COLUMN_SIZE - 1].name] = CORRECT
    /\ slots[COLUMN_SIZE - 1].status = ABSENT

\* first empty cell of the row of the cursor, one past the row if it is full
FirstEmpty(sl, cur) ==
    LET empty == {i \in RowStart(cur)..(RowStart(cur) + COLUMN_SIZE - 1) : sl[i].name = ""}
    IN  IF empty = {} THEN RowStart(cur) + COLUMN_SIZE
        ELSE CHOOSE i \in empty : \A j \in empty : i <= j

Playing == phase = "running" /\ result = "None"

\* C12 as stated: while the game is on, the cursor is on the first empty cell
\* of its row, or on the last cell if the row is full.
C12_AsStated ==
    Playing =>
        current = IF FirstEmpty(slots, current) = RowStart(current) + COLUMN_SIZE
                  THEN RowStart(current) + COLUMN_SIZE - 1
                  ELSE FirstEmpty(slots, current)

\* C12 amended: while the game is on, the cursor is on the first empty cell
\* of its row or on the last filled cell, the one just before it (after a
\* letter is typed the cursor stays on that letter).
C12_CursorAtEdge ==
    Playing =>
        \/ current = FirstEmpty(slots, current)
        \/ current = FirstEmpty(slots, current) - 1 /\ slots[current].name # ""

\* two letters typed in the second row: the cursor is on the second one
C12_Witness ==
    /\ Playing
    /\ current = COLUMN_SIZE + 1
    /\ slots[COLUMN_SIZE + 1].name # ""
    /\ slots[COLUMN_SIZE + 2].name = ""

\* C13: while the game is on, a step that scores no row changes no cell
\* outside the row of the cursor, no status, and keeps the cursor in its
\* row; no step changes a cell of an earlier row; the cells of the later
\* rows are empty and unscored.
C13_RowFrame ==
    [][/\ (InSession /\ result = "None" /\ ~RowScored) =>
             /\ current' \div COLUMN_SIZE = current \div COLUMN_SIZE
             /\ \A i \in 0..(NumSlots - 1) :
                    /\ slots'[i].status = slots[i].status
                    /\ i \div COLUMN_SIZE # current \div COLUMN_SIZE => slots'[i] = slots[i]
       /\ InSession =>
             \A i \in 0..(NumSlots - 1) : i < RowStart(current) => slots'[i] = slots[i]
       /\ (phase' = "running" /\ result' = "None") =>
             \A i \in 0..(NumSlots - 1) :
                 i >= RowStart(current') + COLUMN_SIZE => slots'[i] = EmptySlot]_vars

\* a letter stands in the first cell of the third row, below two scored rows
C13_Witness ==
    /\ Playing
    /\ current = 2 * COLUMN_SIZE
    /\ slots[2 * COLUMN_SIZE].name # ""
    /\ slots[2 * COLUMN_SIZE - 1].status # NoStatus
    /\ slots[2 * COLUMN_SIZE + 1] = EmptySlot

(* ---------------------------------------------------------------------- *)
(* Properties of the start of a run                                        *)
(* ---------------------------------------------------------------------- *)
\* C14 as stated: a run starts only for a day index in 0..len(La)-1, with
\* the solution La[index] uppercased; a negative or too large index fails.
C14_IndexInBounds ==
    Started =>
        /\ 0 <= index /\ index <= Len(La) - 1
        /\ solution = UpperWord(La[index + 1])

\* C15 as stated: a run does not start, and replays nothing, on a day before
\* the day of the stored record.
C15_NoBackwardReplay ==
    ~(/\ Started
      /\ file # <<>>
      /\ 0 <= index
      /\ index < file[1].last_played)

(* ---------------------------------------------------------------------- *)
(* Properties of the message and its timers                                *)
(* ---------------------------------------------------------------------- *)
\* C16 as stated: the countdown timer is never active while the message
\* differs from the result message it was started with.
C16_AsStated ==
    (Started /\ timer) => content = ResultMessage(result, solution)

\* C16 amended: the countdown timer is active only in a finished game and a
\* change of the message does not cancel it: a step that changes the message
\* (the copy confirmation, its restore) leaves the timer active, and the
\* timer stops only through clear_eta, which changes nothing else.
C16_TimerOutlivesMessage ==
    [][/\ (phase' \in {"mounted", "running"} /\ timer') => result' # "None"
       /\ (InRun /\ timer /\ content' # content) => timer'
       /\ (InRun /\ timer /\ ~timer') =>
             UNCHANGED <<slots, current, buttons, result, content, timers, stats, file>>]_vars

\* the copy confirmation is shown while the countdown runs
C16_Witness ==
    /\ phase = "running"
    /\ timer
    /\ content = CopiedMessage
    /\ timers # <<>>

\* C18 as stated: in a finished game, once no restore timer is pending the
\* message is the result message again.
C18_MessageRestored ==
    (Started /\ result # "None" /\ timers = <<>>) =>
        content = ResultMessage(result, solution)

(* ---------------------------------------------------------------------- *)
(* The reference score                                                     *)
(* ---------------------------------------------------------------------- *)
\* what is left of letter ch in the solution after the exact matches
Remaining(sol, word, ch) ==
    Occurrences(sol, ch) - Cardinality({i \in 1..Len(word) : word[i] = ch /\ sol[i] = ch})

\* positions before i that are no exact match and hold the letter of i
EarlierClaims(sol, word, i) ==
    Cardinality({j \in 1..(i - 1) : word[j] = word[i] /\ sol[j] # word[j]})

ReferenceScore(sol, word) ==
    [i \in 1..Len(word) |->
        IF sol[i] = word[i] THEN CORRECT
        ELSE IF EarlierClaims(sol, word, i) < Remaining(sol, word, word[i]) THEN PRESENT
        ELSE ABSENT]

\* C17: the statuses check_solution gives a guess are those of the
\* two-pass reference: Correct where guess and solution agree, then from
\* left to right Present while the solution has occurrences of the letter
\* left after the exact matches and the earlier Present marks, else Absent.
C17_MatchesReference ==
    phase = "scored" => RowStatuses(slots, 1) = ReferenceScore(solution, RowNames(slots, 1))

\* a guess whose first O comes before the O that is in place
C17_Witness ==
    /\ phase = "scored"
    /\ solution = <<"A", "L", "O", "O", "L">>
    /\ RowNames(slots, 1) = <<"O", "O", "O", "L", "L">>
    /\ RowStatuses(slots, 1) = <<PRESENT, ABSENT, CORRECT, PRESENT, CORRECT>>

(* ---------------------------------------------------------------------- *)
(* Properties that tie the keyboard and the cursor to the grid             *)
(* ---------------------------------------------------------------------- *)
\* the highest status among the scored cells that hold the letter
GridMax(sl, l) ==
    LET got == {sl[i].status : i \in {j \in 0..(NumSlots - 1) :
                                        sl[j].name = l /\ sl[j].status # NoStatus}}
    IN  IF got = {} THEN NoStatus ELSE CHOOSE s \in got : \A t \in got : t <= s

\* C19: in every state of a run, played or replayed, the keyboard state of a
\* letter is the highest status among the scored cells that hold it, and is
\* unset when no scored cell holds it; unscored letters do not count.
C19_KeyboardIsGridMax ==
    Started => \A l \in Letters : buttons[l] = GridMax(slots, l)

\* the first row left both letters Present, and two different letters are
\* typed in the second row
C19_Witness ==
    /\ Playing
    /\ current = COLUMN_SIZE + 1
    /\ slots[COLUMN_SIZE].name # slots[COLUMN_SIZE + 1].name
    /\ slots[COLUMN_SIZE + 1].name # ""
    /\ \A l \in Letters : buttons[l] = PRESENT

C19_WitnessReplay ==
    /\ SameDayAsFile
    /\ current = 0
    /\ result = "False"
    /\ \A l \in Letters : buttons[l] = CORRECT

\* C20: while the game is on, the cells of the cursor's row left of the
\* cursor are filled and those right of it are empty, so a full row has the
\* cursor in column 4; the scored rows number cursor div 5, at most 6; after
\* an accepted submission that does not win on rows 1..5 the cursor is in
\* column 0 of the next row and that row is empty.
C20_ContiguousRow ==
    [][/\ (phase' = "running" /\ result' = "None") =>
             /\ \A i \in RowStart(current')..(RowStart(current') + COLUMN_SIZE - 1) :
                    /\ i < current' => slots'[i].name # ""
                    /\ i > current' => slots'[i].name = ""
             /\ RowFull(slots', current') => current' % COLUMN_SIZE = COLUMN_SIZE - 1
             /\ ScoredRows(slots') = current' \div COLUMN_SIZE
       /\ phase' = "running" => ScoredRows(slots') <= ROW_SIZE
       /\ (RowScored /\ result' = "None") =>
             /\ current \div COLUMN_SIZE < ROW_SIZE - 1
             /\ current' = RowStart(current) + COLUMN_SIZE
             /\ \A i \in current'..(current' + COLUMN_SIZE - 1) : slots'[i] = EmptySlot]_vars

\* the fifth row was scored without a win: the cursor opens the sixth row
C20_Witness ==
    /\ Playing
    /\ current = (ROW_SIZE - 1) * COLUMN_SIZE
    /\ slots[current] = EmptySlot
    /\ ScoredRows(slots) = ROW_SIZE - 1

====
